---- MODULE Spec2Model ----
(***************************************************************************)
(* State-machine model of the zptess acquisition pipelines.                *)
(*                                                                         *)
(* Two controllers live in the repository and both are modelled:           *)
(*   - the queue pipeline: tui/controller.py drives photometer/tessw.py    *)
(*     (asyncio.Queue, put_nowait, one producer and one consumer task per  *)
(*     role, started and cancelled from the switches of the view);         *)
(*     specifications Spec (switches, tasks and frames), SpecBacklog       *)
(*     (pipelines left on) and SpecInfo (metadata fetches).                *)
(*   - the stream pipeline: controller.py drives                           *)
(*     photometer/protocol/tessw.py (anyio memory object stream of size 4, *)
(*     awaited send, four tasks in one task group);                        *)
(*     specification SpecStream.                                           *)
(* Both share the decoders of photometer/protocol/payload.py and the       *)
(* transport read loop of photometer/protocol/transport.py; the decode     *)
(* stage of one photometer, fed any frame, is specification SpecDecode.    *)
(*                                                                         *)
(* The model composes the functions as their call sites intend.            *)
(* Photometer.clear() and view.reset_switch() are called by                *)
(* tui/controller.py and defined outside the repository: clear() is any    *)
(* of the four combinations of emptying the queue and resetting the        *)
(* decoder; reset_switch() turns the switch off.                           *)
(*                                                                         *)
(* Further specifications, each over its own variables:                    *)
(*   - SpecRing: the RingBuffer of ring.py under append and pop;           *)
(*   - SpecZeroPoint: save_zero_point of photometer/tessw.py through the   *)
(*     info classes of photometer/protocol/photinfo.py;                    *)
(*   - SpecCal: the life cycle of a calibration session (the engine is     *)
(*     not in the repository; its states follow the specification);        *)
(*   - SpecQa: the batch loader of dbase/loader.py filling the summary,    *)
(*     rounds and samples tables, and the verifier of dbase/qa.py;         *)
(*   - SpecFix: the same loader and the repair tool of dbase/fix.py.       *)
(*   - SpecStat: the statistics of one round as ring.py, dbase/qa.py and   *)
(*     dbase/fix.py compute them from the same frequencies.                *)
(*                                                                         *)
(* Frequencies of the stored tables are integers in units of 0.0005 Hz,    *)
(* so that the tolerances of qa.py and fix.py (0.0005 and 0.005) are 1     *)
(* and 10; means and deviations are compared by cross-multiplication.      *)
(* Magnitudes and zero points of the stored tables are not modelled.       *)
(* The tables are those qa.py, fix.py and loader.py read and write; the    *)
(* declarations of dbase/model.py lag behind them (no round window, no     *)
(* relationships) and are followed only for the column types.              *)
(***************************************************************************)
EXTENDS Integers, Sequences, FiniteSets, TLC

\* ------------------------------------------------------------------ bounds

\* Frames the environment delivers to the pipelines in one run, both roles
\* together.
MaxFrames == 3
\* Frames delivered while the pipelines are left switched on.
MaxBacklog == 5
\* Frames delivered to the stream pipeline in one run, both roles together.
MaxStream == 5
\* Frames handed to the photometer of the decode-stage specification.
MaxDecode == 3
\* Largest value of the JSON 'udp' sequence indicator.
MaxSeq == 2
\* Capacity given to each RingBuffer (ring_buffer_size).
RingSize == 2
\* operations applied to a ring buffer on its own
MaxRingOps == 5
\* distinct items appended to a ring buffer on its own
MaxItem == 2
\* Devices (MAC addresses) the metadata fetch may answer with.
MaxMac == 1
\* calibration sessions started in one run
MaxSessions == 3
\* the configured number of rounds of a calibration session
ConfiguredRounds == 2
\* stored Photometer rows the loader adds
MaxPhot == 1
\* calibration sessions in the stored tables
MaxDbSessions == 1
\* stored Rounds of one Summary
MaxDbRounds == 1
\* stored Samples of one session
MaxSamples == 3
\* Samples of the round whose statistics the three tools are compared on.
MaxStatLen == 4

\* --------------------------------------------------------------- constants

\* Tolerances of the verifier and of the repair, in the unit the stored
\* frequencies are modelled in (0.0005 Hz): 0.0005 Hz and 0.005 Hz.
FreqTol == 1

StddevTol == 10

\* --------------------------------------------------------------- constants

\* max_buffer_size of the memory object streams (controller.py).
max_buffer_size == 4

\* ------------------------------------------------------------------- roles

Roles == {"ref", "test"}

\* photometer/__init__.py other(): the opposite role.
other(role) == IF role = "ref" THEN "test" ELSE "ref"

\* controller.py Controller.__init__, photometer/test.py async_main: the
\* reference photometer decodes the legacy payload, the test one JSON.
old_payload(role) == role = "ref"

\* ------------------------------------------------------------------ frames

\* Python's None.
None == [fmt |-> "none"]

\* The 'udp' key is absent from a JSON object.
NoSeq == 0

\* A raw frame (bytes).  kind:
\*   "hz"    text matching the legacy 'Hz message' pattern,
\*   "mhz"   text matching the legacy 'mHz message' pattern,
\*   "json"  text holding a JSON object; udp = NoSeq when it has no 'udp' key,
\*   "text"  text matching neither legacy pattern and holding no JSON object,
\*   "bytes" bytes that are not valid UTF-8.
\* f is the five-digit frequency field and tA the box temperature field of a
\* legacy frame.
Frame(kind, udp, f, tA) == [kind |-> kind, udp |-> udp, f |-> f, tA |-> tA]

LegacyFrames == {Frame(k, NoSeq, 20, 2000) : k \in {"hz", "mhz"}}

JSONFrames == {Frame("json", u, 0, 0) : u \in 0..MaxSeq}

Frames ==
    LegacyFrames \cup JSONFrames
    \cup {Frame("text", NoSeq, 0, 0), Frame("bytes", NoSeq, 0, 0)}

\* The frames a role's own device sends: legacy Hz records for the reference
\* photometer, JSON objects with a 'udp' sequence number for the test one.
DeviceFrames(role) ==
    IF role = "ref" THEN {Frame("hz", NoSeq, 20, 2000)}
    ELSE {Frame("json", u, 0, 0) : u \in 1..MaxSeq}

\* The dict OldPayload builds (keys tbox, tsky, zp, tstamp, freq): freq in
\* mHz (group 1 divided by 1.0 or by 1000.0), tbox in hundredths of a degree.
OldMessage(data, tstamp) ==
    [fmt |-> "old", tstamp |-> tstamp,
     freq |-> IF data.kind = "hz" THEN 1000 * data.f ELSE data.f,
     tbox |-> data.tA]

\* The dict json.loads returns, with its 'tstamp' key added.
JSONMessage(data, tstamp) ==
    IF data.udp = NoSeq
    THEN [fmt |-> "json", tstamp |-> tstamp]
    ELSE [fmt |-> "json", tstamp |-> tstamp, udp |-> data.udp]

HasKey(message, key) == key \in DOMAIN message

\* A decode call's outcome: the exception it raised ("" when it returned),
\* the (flag, message) pair it returned and the decoder's _prev_msg afterwards.
Outcome(exc, flag, message, prev) ==
    [exc |-> exc, flag |-> flag, message |-> message, prev |-> prev]

\* OldPayload._deduplicate: the value it returns and the _prev_msg it leaves.
\* Line 120 compares the new freq (Hz) with the previous tbox (degrees).
OldDeduplicate(prev, message) ==
    IF prev = None
    THEN [result |-> None, prev |-> message]
    ELSE [result |-> IF message.tbox = prev.tbox /\ message.freq = 10 * prev.tbox
                     THEN None ELSE prev,
          prev |-> message]

\* OldPayload.decode returning what _deduplicate returns, as JSONPayload
\* does, instead of the new message.
OldDecodeDeduplicated(prev, data, tstamp) ==
    IF data.kind = "bytes"
    THEN Outcome("UnicodeDecodeError", FALSE, None, prev)
    ELSE IF data.kind \notin {"hz", "mhz"}
    THEN Outcome("", FALSE, None, prev)
    ELSE LET message == OldMessage(data, tstamp)
             dd == OldDeduplicate(prev, message)
         IN  Outcome("", TRUE, dd.result, dd.prev)

\* OldPayload.decode and _handle_unsolicited_response: the value
\* _deduplicate returns is dropped and the new message is returned.
OldDecode(prev, data, tstamp) ==
    IF data.kind = "bytes"
    THEN Outcome("UnicodeDecodeError", FALSE, None, prev)
    ELSE IF data.kind \notin {"hz", "mhz"}
    THEN Outcome("", FALSE, None, prev)
    ELSE LET message == OldMessage(data, tstamp)
             dd == OldDeduplicate(prev, message)
         IN  Outcome("", TRUE, message, dd.prev)

\* JSONPayload._deduplicate returning the new message, not the retained
\* one, when the sequence indicators differ.
JSONDeduplicateOwn(prev, message) ==
    IF prev = None
    THEN [exc |-> "", result |-> None, prev |-> message]
    ELSE IF ~HasKey(prev, "udp") \/ ~HasKey(message, "udp")
    THEN [exc |-> "KeyError", result |-> None, prev |-> prev]
    ELSE [exc |-> "",
          result |-> IF prev.udp # message.udp THEN message ELSE None,
          prev |-> message]

\* JSONPayload._deduplicate: exc is "KeyError" when a subscripted 'udp' key is
\* missing, and then _prev_msg is left as it was.
JSONDeduplicate(prev, message) ==
    IF prev = None
    THEN [exc |-> "", result |-> None, prev |-> message]
    ELSE IF ~HasKey(prev, "udp") \/ ~HasKey(message, "udp")
    THEN [exc |-> "KeyError", result |-> None, prev |-> prev]
    ELSE [exc |-> "",
          result |-> IF prev.udp # message.udp THEN prev ELSE None,
          prev |-> message]

\* JSONPayload.decode.
JSONDecode(prev, data, tstamp) ==
    IF data.kind = "bytes"
    THEN Outcome("UnicodeDecodeError", FALSE, None, prev)
    ELSE IF data.kind # "json"
    THEN Outcome("", FALSE, None, prev)
    ELSE LET message == JSONMessage(data, tstamp)
             dd == JSONDeduplicate(prev, message)
         IN  IF dd.exc # ""
             THEN Outcome(dd.exc, FALSE, None, dd.prev)
             ELSE Outcome("", TRUE, dd.result, dd.prev)

\* Photometer.__init__: self.decoder, chosen by old_payload.
decode(role, prev, data, tstamp) ==
    IF old_payload(role) THEN OldDecode(prev, data, tstamp)
    ELSE JSONDecode(prev, data, tstamp)

\* The reading a frame carries for the role's decoder: the message built
\* from the frame itself.
Reading(role, data, tstamp) ==
    IF old_payload(role) THEN OldMessage(data, tstamp)
    ELSE JSONMessage(data, tstamp)

\* Photometer.handle_readings of photometer/tessw.py on decoder state prev
\* and queue q.  The queue has no maxsize, so put_nowait always succeeds.
\* An exception of decode leaves through handle_readings.
HandleReadings(role, prev, q, payload, timestamp) ==
    LET d == decode(role, prev, payload, timestamp)
    IN  [exc |-> d.exc,
         flag |-> d.exc = "" /\ d.flag,
         prev |-> d.prev,
         queue |-> IF d.exc = "" /\ d.flag THEN Append(q, d.message) ELSE q]

Range(s) == {s[i] : i \in 1..Len(s)}

\* ------------------------------------------------------------- ring buffer

\* A deque without maxlen: append never discards.
RingAppendUnbounded(buffer, item) == Append(buffer, item)

\* RingBuffer.append on a deque of maxlen RingSize.
RingAppend(buffer, item) ==
    IF Len(buffer) >= RingSize
    THEN Append(Tail(buffer), item)
    ELSE Append(buffer, item)

\* ================================================================ state

VARIABLES
    \* ---- the queue pipeline (tui/controller.py, photometer/tessw.py)
    switch,      \* view: the on/off Switch of each role
    producer,    \* Controller.producer[role]: state of the task it refers to
    consumer,    \* Controller.consumer[role]: state of the task it refers to
    unwinding,   \* a cancelled producer task has not yet left its async with
    port,        \* the transport's socket / serial handle is open
    queue,       \* Photometer._queue
    prev_msg,    \* decoder._prev_msg
    nrecv,       \* frames received by the role's transport (arrival stamps)
    accepted,    \* history: readings of the frames the decoder accepted
    got,         \* history: items the consumer took off the queue
    ring,        \* Controller.ring[role]
    stopped_at,  \* history: readings the other role had accepted when this
                 \* role's pipeline was cancelled with the other one on and
                 \* left on since (-1: no such stop)
    cur_mac,     \* Controller.cur_mac[role]
    dbphot,      \* photometer_t: the stored Photometer rows, in id order
    info,        \* history: how the role's last Controller.get_info ended
    fetch,       \* Controller.get_info suspended in session.commit(): the
                 \* device's answer and what its select found
    \* ---- the decode stage of one photometer (photometer/tessw.py)
    drole,       \* the photometer's role
    dtask,       \* its transport task
    dprev,       \* decoder._prev_msg
    dqueue,      \* Photometer._queue: every item handed over, in order
    dacc,        \* history: readings of the frames the decoder accepted
    dlast,       \* history: the frame handed to the decoder last
    dn,          \* frames received
    \* ---- the stream pipeline (controller.py, photometer/protocol/tessw.py)
    sgroup,      \* the task group of Controller.run_async
    sprod,       \* the task of Photometer.readings, per role
    srecv,       \* the task of Controller.receptor, per role
    sport,       \* the transport's socket / serial handle is open
    sbuf,        \* buffer of the role's memory object stream
    spend,       \* the item a producer blocked in send() is waiting to hand over
    sprev,       \* decoder._prev_msg
    ssendopen,   \* the send stream is open
    srecvopen,   \* the receive stream is open
    sn,          \* frames received by the role's transport
    swritten,    \* lines the receptor wrote to the role's log widget
    \* ---- one RingBuffer on its own (ring.py)
    rbuffer,     \* RingBuffer._buffer
    rhist,       \* history: every item appended, in order
    rpopped,     \* history: the items pop returned, in order
    rraised,     \* history: the last pop raised IndexError
    rops,        \* operations applied
    \* ---- the zero-point writes (photometer/tessw.py, photinfo.py)
    endpoint,    \* transport of REF_ENDPOINT / TEST_ENDPOINT, per role
    flash,       \* zero points written to the role's device
    config_zp,   \* zero points written to config_t, per section
    zpsaved,     \* history: a zero-point write of the role took effect
    zplast,      \* history: how the role's last zero-point write ended
    \* ---- the online calibration of a session
    session,     \* the session in progress (0: none yet)
    cal,         \* calibration state of every (session, role)
    \* ---- the stored tables and the tools run on them (dbase/)
    summary_t,   \* the Summary rows
    rounds_t,    \* the Round rows
    samples_t,   \* the Sample rows
    report,      \* history: the last verifier or repair run on the tables as
                 \* they are, and how it ended
    \* ---- the statistics of one round, as each tool computes them
    stat_freqs,  \* the frequencies of the round's samples, in time order
    stat_method, \* the method the round is stored with
    stat_out     \* history: the tool applied last and what it computed

tuiTaskVars == <<switch, producer, consumer, unwinding, port, queue,
                 prev_msg, nrecv, accepted, got, ring, stopped_at, cur_mac,
                 info, fetch>>

tuiVars == <<tuiTaskVars, dbphot>>

decVars == <<drole, dtask, dprev, dqueue, dacc, dlast, dn>>

strVars == <<sgroup, sprod, srecv, sport, sbuf, spend, sprev, ssendopen,
             srecvopen, sn, swritten>>

ringVars == <<rbuffer, rhist, rpopped, rraised, rops>>

zpVars == <<endpoint, flash, config_zp, zpsaved, zplast>>

calVars == <<session, cal>>

\* The tables the loader, the verifier and the repair work on; photometer_t
\* (dbphot) is the table Controller.get_info writes too.
dbVars == <<summary_t, rounds_t, samples_t, report>>

statVars == <<stat_freqs, stat_method, stat_out>>

vars == <<tuiVars, decVars, strVars, ringVars, zpVars, calVars, dbVars,
          statVars>>

NoMac == 0

Macs == 1..MaxMac

\* Zero points a device reports on its /config page, in 1/100 mag.
DeviceZPs == {2044, 2050}

\* No Controller.get_info of the role is between its select and its commit.
Idle == [phase |-> "idle"]

\* DbPhotometer(mac = info.get('mac'), zero_point = info.get('zp'), ...).
DbPhotometer(mac, zp) == [mac |-> mac, zero_point |-> zp]

\* select(DbPhotometer).where(DbPhotometer.mac == mac): the rows found.
SelectByMac(table, mac) == {i \in 1..Len(table) : table[i].mac = mac}

\* ================================================ the queue pipeline (tui)

\* tui/controller.py Controller.__init__ and photometer/tessw.py
\* Photometer.__init__.
TuiInit ==
    /\ switch = [r \in Roles |-> FALSE]
    /\ producer = [r \in Roles |-> "none"]
    /\ consumer = [r \in Roles |-> "none"]
    /\ unwinding = [r \in Roles |-> FALSE]
    /\ port = [r \in Roles |-> FALSE]
    /\ queue = [r \in Roles |-> <<>>]
    /\ prev_msg = [r \in Roles |-> None]
    /\ nrecv = [r \in Roles |-> 0]
    /\ accepted = [r \in Roles |-> <<>>]
    /\ got = [r \in Roles |-> <<>>]
    /\ ring = [r \in Roles |-> <<>>]
    /\ stopped_at = [r \in Roles |-> -1]
    /\ cur_mac = [r \in Roles |-> NoMac]
    /\ dbphot = <<>>
    /\ info = [r \in Roles |-> "none"]
    /\ fetch = [r \in Roles |-> Idle]

\* Controller.start_readings.  Photometer.clear() belongs to the lica
\* library: it may or may not empty the queue and reset the decoder.
start_readings(role) ==
    /\ \E drained \in BOOLEAN, reset \in BOOLEAN :
          /\ queue' = [queue EXCEPT ![role] = IF drained THEN <<>> ELSE @]
          /\ prev_msg' = [prev_msg EXCEPT ![role] = IF reset THEN None ELSE @]
    /\ consumer' = [consumer EXCEPT ![role] = "running"]
    /\ producer' = [producer EXCEPT ![role] = "pending"]

\* Task.cancel() on the producer: a request.  A task that has not started
\* never runs; a running one keeps its handle until it is next scheduled.
CancelProducer(role) ==
    /\ producer' = [producer EXCEPT ![role] =
                      IF @ \in {"pending", "running"} THEN "cancelled" ELSE @]
    /\ unwinding' = [unwinding EXCEPT ![role] = @ \/ producer[role] = "running"]

\* Task.cancel() on the consumer, which is suspended in queue.get().
CancelConsumer(role) ==
    consumer' = [consumer EXCEPT ![role] =
                   IF @ = "running" THEN "cancelled" ELSE @]

\* Controller.cancel_readings.
cancel_readings(role) ==
    /\ producer[role] # "none"
    /\ consumer[role] # "none"
    /\ CancelProducer(role)
    /\ CancelConsumer(role)
    /\ stopped_at' = [stopped_at EXCEPT
                        ![role] = IF switch[other(role)]
                                  THEN Len(accepted[other(role)])
                                  ELSE -1,
                        ![other(role)] = -1]

\* A handler that starts the readings whenever it runs, the switch already
\* on or not.
SwitchOnUnguarded(role) ==
    /\ switch' = [switch EXCEPT ![role] = TRUE]
    /\ start_readings(role)
    /\ UNCHANGED <<unwinding, port, nrecv, accepted, got, ring, stopped_at,
                   cur_mac, dbphot, info, fetch>>

\* MyTextualApp.ref_switch_pressed / tst_switch_pressed, switch turned on.
SwitchOn(role) ==
    /\ ~switch[role]
    /\ switch' = [switch EXCEPT ![role] = TRUE]
    /\ start_readings(role)
    /\ UNCHANGED <<unwinding, port, nrecv, accepted, got, ring, stopped_at,
                   cur_mac, dbphot, info, fetch>>

\* MyTextualApp.ref_switch_pressed / tst_switch_pressed, switch turned off.
SwitchOff(role) ==
    /\ switch[role]
    /\ switch' = [switch EXCEPT ![role] = FALSE]
    /\ cancel_readings(role)
    /\ UNCHANGED <<port, queue, prev_msg, nrecv, accepted, got, ring,
                   cur_mac, dbphot, info, fetch>>

\* UDPTransport.readings (and its TCP and serial variants): the task's first
\* step opens the handle, or fails to.  It runs after a cancelled predecessor
\* has unwound (tasks are woken in the order they were scheduled).
ProducerOpen(role) ==
    /\ producer[role] = "pending"
    /\ ~unwinding[role]
    /\ \E ok \in BOOLEAN :
          /\ producer' = [producer EXCEPT ![role] =
                            IF ok THEN "running" ELSE "failed"]
          /\ port' = [port EXCEPT ![role] = ok]
    /\ UNCHANGED <<switch, consumer, unwinding, queue, prev_msg, nrecv,
                   accepted, got, ring, stopped_at, cur_mac, dbphot, info,
                   fetch>>

\* The cancelled producer task is scheduled: CancelledError leaves the
\* async with block, which closes the handle.
ProducerUnwind(role) ==
    /\ unwinding[role]
    /\ unwinding' = [unwinding EXCEPT ![role] = FALSE]
    /\ port' = [port EXCEPT ![role] = FALSE]
    /\ UNCHANGED <<switch, producer, consumer, queue, prev_msg, nrecv,
                   accepted, got, ring, stopped_at, cur_mac, dbphot, info,
                   fetch>>

\* The frames the environment sends a role of the queue pipeline: its
\* device's frames.
WireFrames(role) == DeviceFrames(role)

\* One turn of the transport's read loop (UDPTransport.readings): a frame
\* arrives, is stamped and handed to handle_readings.  An exception of the
\* decoder ends the task, whose async with closes the handle.
ProducerFrame(role, limit) ==
    /\ producer[role] = "running"
    /\ nrecv["ref"] + nrecv["test"] < limit
    /\ \E payload \in WireFrames(role) :
          LET now == nrecv[role] + 1
              h == HandleReadings(role, prev_msg[role], queue[role], payload, now)
          IN  /\ nrecv' = [nrecv EXCEPT ![role] = now]
              /\ prev_msg' = [prev_msg EXCEPT ![role] = h.prev]
              /\ queue' = [queue EXCEPT ![role] = h.queue]
              /\ accepted' = [accepted EXCEPT ![role] =
                                IF h.flag
                                THEN Append(@, Reading(role, payload, now))
                                ELSE @]
              /\ producer' = [producer EXCEPT ![role] =
                                IF h.exc = "" THEN @ ELSE "failed"]
              /\ port' = [port EXCEPT ![role] = h.exc = ""]
    /\ UNCHANGED <<switch, consumer, unwinding, got, ring, stopped_at,
                   cur_mac, dbphot, info, fetch>>

\* The link fails or the peer closes it: the read loop ends and the
\* async with closes the handle.
ProducerLinkDown(role) ==
    /\ producer[role] = "running"
    /\ producer' = [producer EXCEPT ![role] = "done"]
    /\ port' = [port EXCEPT ![role] = FALSE]
    /\ UNCHANGED <<switch, consumer, unwinding, queue, prev_msg, nrecv,
                   accepted, got, ring, stopped_at, cur_mac, dbphot, info,
                   fetch>>

\* The keys Controller.receive subscripts: msg['tstamp'], msg['freq'],
\* msg['tamb'], msg['tsky'].  None is not subscriptable, and the legacy dict
\* has 'tbox' where receive reads 'tamb'.
Subscriptable(msg) == msg # None /\ msg.fmt = "json"

\* Controller.receive: one turn of its loop.  The item is appended to the
\* ring before the line is formatted; an exception ends the task.
receive(role) ==
    /\ consumer[role] = "running"
    /\ queue[role] # <<>>
    /\ LET msg == Head(queue[role])
       IN  /\ queue' = [queue EXCEPT ![role] = Tail(@)]
           /\ got' = [got EXCEPT ![role] = Append(@, msg)]
           /\ ring' = [ring EXCEPT ![role] = RingAppend(@, msg)]
           /\ consumer' = [consumer EXCEPT ![role] =
                             IF Subscriptable(msg) THEN @ ELSE "failed"]
    /\ UNCHANGED <<switch, producer, unwinding, port, prev_msg, nrecv,
                   accepted, stopped_at, cur_mac, dbphot, info, fetch>>

\* view.reset_switch: the switch goes off, and when it was on its Changed
\* handler runs cancel_readings.
reset_switch(role) ==
    /\ switch' = [switch EXCEPT ![role] = FALSE]
    /\ IF switch[role]
       THEN cancel_readings(role)
       ELSE UNCHANGED <<producer, consumer, unwinding, stopped_at>>

\* Controller.get_info, the fetch timing out (asyncio TimeoutError).
GetInfoTimeout(role) ==
    /\ info' = [info EXCEPT ![role] = "timeout"]
    /\ reset_switch(role)
    /\ UNCHANGED <<port, queue, prev_msg, nrecv, accepted, got, ring,
                   cur_mac, dbphot, fetch>>

\* Controller.get_info, the fetch raising any other exception: it is logged.
GetInfoError(role) ==
    /\ info' = [info EXCEPT ![role] = "error"]
    /\ UNCHANGED <<switch, producer, consumer, unwinding, port, queue,
                   prev_msg, nrecv, accepted, got, ring, stopped_at, cur_mac,
                   dbphot, fetch>>

\* Controller.get_info, the fetch answering: the session selects the stored
\* rows with the device's MAC.  one_or_none() gives None for no row and the
\* row for one, and raises MultipleResultsFound for more; the coroutine
\* then decides whether to add a row and suspends in session.commit().
GetInfoOk(role) ==
    /\ fetch[role] = Idle
    /\ \E mac \in Macs, zp \in DeviceZPs :
          fetch' = [fetch EXCEPT ![role] =
                      [phase |-> "selected", mac |-> mac, zp |-> zp,
                       rows |-> Cardinality(SelectByMac(dbphot, mac))]]
    /\ info' = [info EXCEPT ![role] = "ok"]
    /\ UNCHANGED <<switch, producer, consumer, unwinding, port, queue,
                   prev_msg, nrecv, accepted, got, ring, stopped_at, cur_mac,
                   dbphot>>

\* Controller.get_info resumed: the commit flushes the row added when the
\* select found none (MultipleResultsFound is caught and rolled back), and
\* the device becomes the role's current one.
GetInfoCommit(role) ==
    /\ fetch[role] # Idle
    /\ dbphot' = IF fetch[role].rows = 0
                 THEN Append(dbphot,
                             DbPhotometer(fetch[role].mac, fetch[role].zp))
                 ELSE dbphot
    /\ cur_mac' = [cur_mac EXCEPT ![role] = fetch[role].mac]
    /\ fetch' = [fetch EXCEPT ![role] = Idle]
    /\ UNCHANGED <<switch, producer, consumer, unwinding, port, queue,
                   prev_msg, nrecv, accepted, got, ring, stopped_at, info>>

\* The pipelines: the switches, the tasks and the frames.
TuiNext ==
    \E role \in Roles :
        \/ SwitchOn(role)
        \/ SwitchOff(role)
        \/ ProducerOpen(role)
        \/ ProducerUnwind(role)
        \/ ProducerFrame(role, MaxFrames)
        \/ ProducerLinkDown(role)
        \/ receive(role)

\* The pipelines left switched on, the consumer free to lag behind.
BacklogNext ==
    \E role \in Roles :
        \/ SwitchOn(role)
        \/ ProducerOpen(role)
        \/ ProducerFrame(role, MaxBacklog)
        \/ receive(role)

\* The metadata fetches, with the switches and the tasks they act on.
InfoNext ==
    \E role \in Roles :
        \/ SwitchOn(role)
        \/ SwitchOff(role)
        \/ ProducerOpen(role)
        \/ ProducerUnwind(role)
        \/ ProducerLinkDown(role)
        \/ GetInfoTimeout(role)
        \/ GetInfoError(role)
        \/ GetInfoOk(role)
        \/ GetInfoCommit(role)

\* ======================================================== the decode stage

\* A photometer of one of `roles`, its transport task started.
DecInit(roles) ==
    /\ drole \in roles
    /\ dtask = "running"
    /\ dprev = None
    /\ dqueue = <<>>
    /\ dacc = <<>>
    /\ dlast = None
    /\ dn = 0

\* One turn of the transport's read loop on any frame: it is stamped and
\* handed to handle_readings; an exception of the decoder ends the task.
DecodeFrame ==
    /\ dtask = "running"
    /\ dn < MaxDecode
    /\ \E payload \in Frames :
          LET now == dn + 1
              h == HandleReadings(drole, dprev, dqueue, payload, now)
          IN  /\ dn' = now
              /\ dlast' = payload
              /\ dprev' = h.prev
              /\ dqueue' = h.queue
              /\ dacc' = IF h.flag
                         THEN Append(dacc, Reading(drole, payload, now))
                         ELSE dacc
              /\ dtask' = IF h.exc = "" THEN dtask ELSE "failed"
    /\ UNCHANGED drole

DecNext == DecodeFrame

\* ============================================= the stream pipeline (anyio)

\* controller.py Controller.__init__ and run_async: two streams, two
\* photometers, and the four tasks started in one task group.
StrInit ==
    /\ sgroup = "running"
    /\ sprod = [r \in Roles |-> "pending"]
    /\ srecv = [r \in Roles |-> "info"]
    /\ sport = [r \in Roles |-> FALSE]
    /\ sbuf = [r \in Roles |-> <<>>]
    /\ spend = [r \in Roles |-> None]
    /\ sprev = [r \in Roles |-> None]
    /\ ssendopen = [r \in Roles |-> TRUE]
    /\ srecvopen = [r \in Roles |-> TRUE]
    /\ sn = [r \in Roles |-> 0]
    /\ swritten = [r \in Roles |-> 0]

LiveProducer(state) == state \in {"pending", "running", "blocked"}

LiveReceptor(state) == state \in {"info", "receiving"}

\* handle_error and the catch of run_async: exception groups of ValueError
\* (UnicodeDecodeError is one) and KeyError are logged, any other leaves
\* run_async.
Handled(exc) == exc \in {"UnicodeDecodeError", "ValueError", "KeyError"}

\* The task group of run_async when the producer of `role` raises exc: the
\* group's scope is cancelled, so every other task still alive is cancelled.
\* A producer leaving `async with self.stream` closes its send stream and its
\* transport handle; a receptor leaving `async with stream` closes its
\* receive stream.
TaskGroupAbort(role, exc) ==
    /\ sgroup' = IF Handled(exc) THEN "handled" ELSE "escaped"
    /\ sprod' = [r \in Roles |->
                   IF r = role THEN "failed"
                   ELSE IF LiveProducer(sprod[r]) THEN "cancelled"
                   ELSE sprod[r]]
    /\ srecv' = [r \in Roles |->
                   IF LiveReceptor(srecv[r]) THEN "cancelled" ELSE srecv[r]]
    /\ sport' = [r \in Roles |-> FALSE]
    /\ spend' = [r \in Roles |-> None]
    /\ ssendopen' = [r \in Roles |->
                       ssendopen[r] /\ r # role /\ ~LiveProducer(sprod[r])]
    /\ srecvopen' = [r \in Roles |-> srecvopen[r] /\ srecv[r] # "receiving"]

\* UDPTransport.readings, first step: the handle is opened, or the open
\* raises (OSError) out of the task.
SProducerOpen(role) ==
    /\ sprod[role] = "pending"
    /\ \/ /\ sprod' = [sprod EXCEPT ![role] = "running"]
          /\ sport' = [sport EXCEPT ![role] = TRUE]
          /\ UNCHANGED <<sgroup, srecv, spend, ssendopen, srecvopen>>
       \/ TaskGroupAbort(role, "OSError")
    /\ UNCHANGED <<sbuf, sprev, sn, swritten>>

\* The frames the environment sends a role of the stream pipeline: its
\* device's frames and line noise that is not UTF-8.
NoisyFrames(role) == DeviceFrames(role) \cup {Frame("bytes", NoSeq, 0, 0)}

\* MemoryObjectSendStream.send on a stream whose receive side is open:
\* the item is buffered when there is room, else the sender waits.
StreamFull(role) == Len(sbuf[role]) >= max_buffer_size

\* One turn of the transport's read loop with Photometer.handle_readings of
\* photometer/protocol/tessw.py: decode, then await stream.send of the raw
\* (payload, timestamp) pair when the frame was accepted.
SProducerFrame(role) ==
    /\ sprod[role] = "running"
    /\ sn["ref"] + sn["test"] < MaxStream
    /\ \E payload \in NoisyFrames(role) :
          LET now == sn[role] + 1
              d == decode(role, sprev[role], payload, now)
              item == [fmt |-> "raw", payload |-> payload, tstamp |-> now]
          IN  /\ sn' = [sn EXCEPT ![role] = now]
              /\ sprev' = [sprev EXCEPT ![role] = d.prev]
              /\ IF d.exc # ""
                 THEN /\ TaskGroupAbort(role, d.exc)
                      /\ UNCHANGED sbuf
                 ELSE IF ~d.flag
                 THEN UNCHANGED <<sgroup, sprod, srecv, sport, sbuf, spend,
                                  ssendopen, srecvopen>>
                 ELSE IF ~srecvopen[role]
                 THEN /\ TaskGroupAbort(role, "BrokenResourceError")
                      /\ UNCHANGED sbuf
                 ELSE IF StreamFull(role)
                 THEN /\ sprod' = [sprod EXCEPT ![role] = "blocked"]
                      /\ spend' = [spend EXCEPT ![role] = item]
                      /\ UNCHANGED <<sgroup, srecv, sport, sbuf, ssendopen,
                                     srecvopen>>
                 ELSE /\ sbuf' = [sbuf EXCEPT ![role] = Append(@, item)]
                      /\ UNCHANGED <<sgroup, sprod, srecv, sport, spend,
                                     ssendopen, srecvopen>>
    /\ UNCHANGED swritten

\* The peer closes the link: the read loop ends, Photometer.readings returns
\* and its `async with self.stream` closes the send stream.
SProducerEof(role) ==
    /\ sprod[role] = "running"
    /\ sprod' = [sprod EXCEPT ![role] = "done"]
    /\ sport' = [sport EXCEPT ![role] = FALSE]
    /\ ssendopen' = [ssendopen EXCEPT ![role] = FALSE]
    /\ UNCHANGED <<sgroup, srecv, sbuf, spend, sprev, srecvopen, sn, swritten>>

\* The link fails: the read raises out of the task.
SProducerLinkError(role) ==
    /\ sprod[role] = "running"
    /\ TaskGroupAbort(role, "OSError")
    /\ UNCHANGED <<sbuf, sprev, sn, swritten>>

\* Controller.receptor: get_info answered, the metadata is shown and the
\* receptor enters its receive loop.
SGetInfoOk(role) ==
    /\ srecv[role] = "info"
    /\ srecv' = [srecv EXCEPT ![role] = "receiving"]
    /\ UNCHANGED <<sgroup, sprod, sport, sbuf, spend, sprev, ssendopen,
                   srecvopen, sn, swritten>>

\* Controller.receptor: get_info raised; the exception is logged and the
\* receptor returns without entering `async with stream`.
SGetInfoFail(role) ==
    /\ srecv[role] = "info"
    /\ srecv' = [srecv EXCEPT ![role] = "returned"]
    /\ UNCHANGED <<sgroup, sprod, sport, sbuf, spend, sprev, ssendopen,
                   srecvopen, sn, swritten>>

\* Controller.receptor: one turn of `async for`: an item is received and
\* written to the widget.  MemoryObjectReceiveStream.receive moves the item
\* of a waiting sender into the buffer and wakes the sender.
SReceive(role) ==
    /\ srecv[role] = "receiving"
    /\ sbuf[role] # <<>>
    /\ swritten' = [swritten EXCEPT ![role] = @ + 1]
    /\ IF sprod[role] = "blocked"
       THEN /\ sbuf' = [sbuf EXCEPT ![role] = Append(Tail(@), spend[role])]
            /\ spend' = [spend EXCEPT ![role] = None]
            /\ sprod' = [sprod EXCEPT ![role] = "running"]
       ELSE /\ sbuf' = [sbuf EXCEPT ![role] = Tail(@)]
            /\ UNCHANGED <<spend, sprod>>
    /\ UNCHANGED <<sgroup, srecv, sport, sprev, ssendopen, srecvopen, sn>>

\* Controller.receptor: the buffer is empty and the send stream closed, so
\* receive raises EndOfStream: `async for` ends and `async with stream`
\* closes the receive stream.
SEndOfStream(role) ==
    /\ srecv[role] = "receiving"
    /\ sbuf[role] = <<>>
    /\ ~ssendopen[role]
    /\ srecv' = [srecv EXCEPT ![role] = "done"]
    /\ srecvopen' = [srecvopen EXCEPT ![role] = FALSE]
    /\ UNCHANGED <<sgroup, sprod, sport, sbuf, spend, sprev, ssendopen, sn,
                   swritten>>

StrNext ==
    \E role \in Roles :
        \/ SProducerOpen(role)
        \/ SProducerFrame(role)
        \/ SProducerEof(role)
        \/ SProducerLinkError(role)
        \/ SGetInfoOk(role)
        \/ SGetInfoFail(role)
        \/ SReceive(role)
        \/ SEndOfStream(role)

\* ========================================================= the ring buffer

\* RingBuffer.__init__: an empty deque of maxlen capacity.
RingInit ==
    /\ rbuffer = <<>>
    /\ rhist = <<>>
    /\ rpopped = <<>>
    /\ rraised = FALSE
    /\ rops = 0

RingItems == 1..MaxItem

\* RingBuffer.append.
append ==
    /\ rops < MaxRingOps
    /\ \E item \in RingItems :
          /\ rbuffer' = RingAppend(rbuffer, item)
          /\ rhist' = Append(rhist, item)
    /\ rops' = rops + 1
    /\ UNCHANGED <<rpopped, rraised>>

\* RingBuffer.pop: deque.popleft, which raises IndexError on an empty deque.
pop ==
    /\ rops < MaxRingOps
    /\ IF rbuffer = <<>>
       THEN /\ rraised' = TRUE
            /\ UNCHANGED <<rbuffer, rpopped>>
       ELSE /\ rraised' = FALSE
            /\ rpopped' = Append(rpopped, Head(rbuffer))
            /\ rbuffer' = Tail(rbuffer)
    /\ rops' = rops + 1
    /\ UNCHANGED rhist

RingNext == append \/ pop

\* ==================================================== the zero-point writes

Transports == {"udp", "tcp", "serial"}

Sections == {"ref-device", "test-device"}

\* Zero points a calibration hands to save_zero_point, in 1/100 mag.
CorrectedZPs == {2038, 2061}

\* Python values of the two types a role is compared in.
PyStr(v) == [type |-> "str", v |-> v]

PyInt(v) == [type |-> "int", v |-> v]

\* Python ==: values of different types are not equal.
PyEq(a, b) == a.type = b.type /\ a.v = b.v

\* zptess.photometer: REF = 1, TEST = 0.
REF == PyInt(1)

TEST == PyInt(0)

\* Photometer.role: the str the controller passed (role='ref', role='test').
ParentRole(role) == PyStr(role)

\* Photometer.__init__: the info object of a role.
InfoClass(role, transport) ==
    IF transport = "serial" /\ role = "ref" THEN "DBaseInfo" ELSE "HTMLInfo"

\* DBaseInfo.save_zero_point: the section it updates.
DBaseSection(role) ==
    IF PyEq(ParentRole(role), REF) THEN "ref-device" ELSE "test-device"

\* The endpoints are configuration: any of `transports` for each role.
ZeroPointInit(transports) ==
    /\ endpoint \in [Roles -> transports]
    /\ flash = [r \in Roles |-> {}]
    /\ config_zp = [sec \in Sections |-> {}]
    /\ zpsaved = [r \in Roles |-> FALSE]
    /\ zplast = [r \in Roles |-> "none"]

\* DBaseInfo.save_zero_point.
DBaseSaveZeroPoint(role, zp) ==
    IF PyEq(ParentRole(role), TEST)
    THEN /\ zplast' = [zplast EXCEPT ![role] = "NotImplementedError"]
         /\ UNCHANGED <<flash, config_zp, zpsaved>>
    ELSE /\ config_zp' = [config_zp EXCEPT ![DBaseSection(role)] = @ \cup {zp}]
         /\ zpsaved' = [zpsaved EXCEPT ![role] = TRUE]
         /\ zplast' = [zplast EXCEPT ![role] = "ok"]
         /\ UNCHANGED flash

\* HTMLInfo.save_zero_point: GET /setconst?cons=zp on the role's device.
\* The device flashes the value and answers "New Zero Point"; a device that
\* cannot be reached (a serial endpoint has no HTTP address) or whose answer
\* does not match raises.
HTMLSaveZeroPoint(role, zp) ==
    \E answered \in BOOLEAN :
        IF answered /\ endpoint[role] # "serial"
        THEN /\ flash' = [flash EXCEPT ![role] = @ \cup {zp}]
             /\ zpsaved' = [zpsaved EXCEPT ![role] = TRUE]
             /\ zplast' = [zplast EXCEPT ![role] = "ok"]
             /\ UNCHANGED config_zp
        ELSE /\ zplast' = [zplast EXCEPT ![role] = "IOError"]
             /\ UNCHANGED <<flash, config_zp, zpsaved>>

\* Photometer.save_zero_point: delegates to the role's info object.
save_zero_point(role) ==
    /\ \E zp \in CorrectedZPs :
          IF InfoClass(role, endpoint[role]) = "DBaseInfo"
          THEN DBaseSaveZeroPoint(role, zp)
          ELSE HTMLSaveZeroPoint(role, zp)
    /\ UNCHANGED endpoint

\* PhotometerService.on_update_zero_point: the reference service ignores
\* the update, the test service writes it to its device.
on_update_zero_point(role) ==
    /\ IF role = "ref"
       THEN /\ zplast' = [zplast EXCEPT ![role] = "ignored"]
            /\ UNCHANGED <<flash, config_zp, zpsaved>>
       ELSE \E zp \in CorrectedZPs : HTMLSaveZeroPoint(role, zp)
    /\ UNCHANGED endpoint

ZeroPointNext ==
    \E role \in Roles :
        \/ save_zero_point(role)
        \/ on_update_zero_point(role)

\* =================================================== the online calibration

Sessions == 1..MaxSessions

NotStarted == [state |-> "none"]

Collecting(rounds_so_far) ==
    [state |-> "Collecting", rounds |-> rounds_so_far]

Finalized == [state |-> "Finalized"]

CalInit ==
    /\ session = 0
    /\ cal = [s \in Sessions |-> [r \in Roles |-> NotStarted]]

\* A session that reopens the one in progress instead of starting afresh.
StartSessionReusing ==
    LET reused == IF session \in Sessions THEN session ELSE session + 1
    IN  /\ session' = reused
        /\ cal' = [cal EXCEPT ![reused] = [r \in Roles |-> Collecting(0)]]

\* A new calibration session begins: both roles start collecting, whatever
\* became of the session before.
StartSession ==
    /\ session < MaxSessions
    /\ session' = session + 1
    /\ cal' = [cal EXCEPT ![session + 1] = [r \in Roles |-> Collecting(0)]]

\* A window of the role closes and its Round is created.
CloseRound(role) ==
    /\ session \in Sessions
    /\ cal[session][role].state = "Collecting"
    /\ cal[session][role].rounds < ConfiguredRounds
    /\ cal' = [cal EXCEPT ![session][role] = Collecting(@.rounds + 1)]
    /\ UNCHANGED session

\* The configured round count is reached: the role's Summary is created.
Finalize(role) ==
    /\ session \in Sessions
    /\ cal[session][role] = Collecting(ConfiguredRounds)
    /\ cal' = [cal EXCEPT ![session][role] = Finalized]
    /\ UNCHANGED session

CalNext ==
    \/ StartSession
    \/ \E role \in Roles : CloseRound(role) \/ Finalize(role)

\* ==================================================== the stored tables

\* A nullable column: NULL, or a value.
Null == <<>>

Val(v) == <<v>>

DbSessions == 1..MaxDbSessions

\* The stored tables are modelled for one role.
DbRole == "test"

\* Frequencies are integers in units of 0.0005 Hz, time stamps integers.
SampleFreqs == {2000, 2120}

RoundFreqs == {2000, 2040}

RoundStddevs == {0, 69, 85}

Methods == {"mean", "median", "mode"}

\* ------------------------------------------------------------ statistics

RECURSIVE Sum(_)
Sum(xs) == IF xs = <<>> THEN 0 ELSE Head(xs) + Sum(Tail(xs))

\* A float the statistics functions return, kept exact: num / den.
Rat(num, den) == [num |-> num, den |-> den]

\* statistics.mean.
Mean(xs) == Rat(Sum(xs), Len(xs))

Sorted(xs) == SortSeq(xs, LAMBDA a, b : a < b)

\* statistics.median: the middle value, or the average of the two middle
\* ones.
Median(xs) ==
    LET n == Len(xs)
        ys == Sorted(xs)
    IN  IF n % 2 = 1
        THEN Rat(ys[(n + 1) \div 2], 1)
        ELSE Rat(ys[n \div 2] + ys[n \div 2 + 1], 2)

\* statistics.median_low.
MedianLow(xs) == Rat(Sorted(xs)[(Len(xs) + 1) \div 2], 1)

Count(xs, v) == Cardinality({i \in DOMAIN xs : xs[i] = v})

\* statistics.mode: the most common value, the first one met on a tie.
Mode(xs) ==
    LET best == {i \in DOMAIN xs :
                    \A j \in DOMAIN xs : Count(xs, xs[i]) >= Count(xs, xs[j])}
        first == CHOOSE i \in best : \A j \in best : i <= j
    IN  Rat(xs[first], 1)

\* The statistics function a name stands for.
Apply(f, xs) ==
    IF f = "mean" THEN Mean(xs)
    ELSE IF f = "median" THEN Median(xs)
    ELSE Mode(xs)

\* math.fabs(value - stored) < tol.
CloseTo(value, stored, tol) ==
    LET d == value.num - value.den * stored
    IN  (IF d < 0 THEN -d ELSE d) < value.den * tol

\* Sum of squares about c and the divisor of statistics.stdev(xs, c), both
\* scaled by c.den ^ 2: stdev(xs, c) = sqrt(ss / dv).
SumSq(xs, c) ==
    Sum([i \in DOMAIN xs |-> (c.den * xs[i] - c.num) * (c.den * xs[i] - c.num)])

Divisor(xs, c) == c.den * c.den * (Len(xs) - 1)

\* math.fabs(statistics.stdev(xs, c) - stored) < tol.
StdevCloseTo(xs, c, stored, tol) ==
    LET ss == SumSq(xs, c)
        dv == Divisor(xs, c)
    IN  /\ ss < dv * (stored + tol) * (stored + tol)
        /\ \/ stored < tol
           \/ ss > dv * (stored - tol) * (stored - tol)

SeqMax(xs) == CHOOSE v \in Range(xs) : \A w \in Range(xs) : w <= v

SeqMin(xs) == CHOOSE v \in Range(xs) : \A w \in Range(xs) : v <= w

\* statistics.stdev(xs, c) as a stored value: cut to the model's unit.
Stdev(xs, c) ==
    LET ss == SumSq(xs, c)
        dv == Divisor(xs, c)
    IN  CHOOSE s \in 0..(2 * (SeqMax(xs) - SeqMin(xs)) + 1) :
            /\ s * s * dv <= ss
            /\ ss < (s + 1) * (s + 1) * dv

\* CentralTendency, a plain enum.Enum, and a member's .value.
CentralTendency(name) == [type |-> "CentralTendency", v |-> name]

Value(member) == PyStr(member.v)

\* qa.py central(method): method is the str stored in a String(6) column,
\* compared with the enum members themselves.
QaCentral(method) ==
    IF PyEq(PyStr(method), CentralTendency("mean")) THEN "mean"
    ELSE IF PyEq(PyStr(method), CentralTendency("median")) THEN "median"
    ELSE "mode"

\* fix.py central(method): compared with the members' values.
FixCentral(method) ==
    IF PyEq(PyStr(method), Value(CentralTendency("mean"))) THEN "mean"
    ELSE IF PyEq(PyStr(method), Value(CentralTendency("median"))) THEN "median"
    ELSE "mode"

\* ---------------------------------------------------------------- queries

\* The sequence of the elements of a set of integers, ascending.
RECURSIVE Ascending(_)
Ascending(S) ==
    IF S = {} THEN <<>>
    ELSE LET least == CHOOSE v \in S : \A w \in S : v <= w
         IN  <<least>> \o Ascending(S \ {least})

SummaryRounds(summary) ==
    {r \in rounds_t : r.session = summary.session /\ r.role = summary.role}

SummarySamples(ses, role) ==
    {x \in samples_t : x.session = ses /\ x.role = role}

\* Round.samples: the Samples the loader linked, those inside the window.
RoundSamples(round) ==
    IF round.begin_tstamp = Null \/ round.end_tstamp = Null
    THEN {}
    ELSE {x \in SummarySamples(round.session, round.role) :
             /\ round.begin_tstamp[1] <= x.tstamp
             /\ x.tstamp <= round.end_tstamp[1]}

SampleAt(samples, tstamp) == CHOOSE x \in samples : x.tstamp = tstamp

\* The frequencies of a set of Samples, in time order.
Freqs(samples) ==
    LET ts == Ascending({x.tstamp : x \in samples})
    IN  [i \in DOMAIN ts |-> SampleAt(samples, ts[i]).freq]

RoundOf(rounds, seq) == CHOOSE r \in rounds : r.seq = seq

\* The rounds of a Summary, in sequence order.
RoundSeq(rounds) ==
    LET seqs == Ascending({r.seq : r \in rounds})
    IN  [i \in DOMAIN seqs |-> RoundOf(rounds, seqs[i])]

NoReport == [tool |-> "none", arg |-> "", filter |-> Null, outcome |-> ""]

DbInit ==
    /\ summary_t = {}
    /\ rounds_t = {}
    /\ samples_t = {}
    /\ report = NoReport

\* ------------------------------------------------------------- the loader

\* loader.py load_photometer, one row: nothing keeps MACs apart.
load_photometer ==
    /\ Len(dbphot) < MaxPhot
    /\ \E mac \in Macs, zp \in DeviceZPs :
          dbphot' = Append(dbphot, DbPhotometer(mac, zp))
    /\ report' = NoReport
    /\ UNCHANGED <<summary_t, rounds_t, samples_t>>

\* The Summary rows a summary.csv may hold.
SummaryRows ==
    [session : DbSessions, role : {DbRole}, mac : Macs,
     nrounds : {Null} \cup {Val(n) : n \in 1..(MaxDbRounds + 1)},
     freq_method : {"mean"}, freq : {Val(f) : f \in RoundFreqs}]

\* loader.py load_summary, one row: the row is stored as read, linked to
\* the one Photometer of its MAC (.one() raises when there is none or more
\* than one; so does the unique constraint on session and role).
load_summary ==
    /\ \E row \in SummaryRows :
          /\ Cardinality(SelectByMac(dbphot, row.mac)) = 1
          /\ ~\E s \in summary_t : s.session = row.session /\ s.role = row.role
          /\ summary_t' = summary_t \cup {row}
    /\ report' = NoReport
    /\ UNCHANGED <<dbphot, rounds_t, samples_t>>

\* The Round rows a rounds.csv may hold.
RoundRows ==
    [session : DbSessions, role : {DbRole}, seq : 1..MaxDbRounds,
     central : {"mean", "median"},
     freq : {Null} \cup {Val(f) : f \in RoundFreqs},
     stddev : RoundStddevs,
     nsamples : {0, MaxSamples},
     begin_tstamp : {Null, Val(1)},
     end_tstamp : {Null, Val(MaxSamples)}]

\* loader.py load_rounds, one row: the row is stored as read when its
\* session has a Summary, and skipped otherwise.  The loader's command table
\* loads the rounds before the samples.
load_rounds ==
    /\ \E row \in RoundRows :
          /\ \E s \in summary_t : s.session = row.session /\ s.role = row.role
          /\ ~\E r \in rounds_t :
                r.session = row.session /\ r.role = row.role /\ r.seq = row.seq
          /\ SummarySamples(row.session, row.role) = {}
          /\ rounds_t' = rounds_t \cup {row}
    /\ report' = NoReport
    /\ UNCHANGED <<dbphot, summary_t, samples_t>>

\* loader.py load_samples, one row, the rows of a session in time order:
\* the Sample is linked to the rounds whose window holds it.  A session
\* without rounds is skipped; comparing with the window of a round that has
\* none raises TypeError.
load_samples ==
    /\ \E ses \in DbSessions, freq \in SampleFreqs :
          LET stored == SummarySamples(ses, DbRole)
              rounds == {r \in rounds_t : r.session = ses /\ r.role = DbRole}
          IN  /\ Cardinality(stored) < MaxSamples
              /\ rounds # {}
              /\ \A r \in rounds :
                    r.begin_tstamp # Null /\ r.end_tstamp # Null
              /\ samples_t' = samples_t \cup
                    {[session |-> ses, role |-> DbRole,
                      tstamp |-> Cardinality(stored) + 1, freq |-> freq]}
    /\ report' = NoReport
    /\ UNCHANGED <<dbphot, summary_t, rounds_t>>

\* ----------------------------------------------------------- the verifier

\* How a check ends: "ok", the assertion that failed, or the exception that
\* is not an AssertionError.
Violations ==
    {"nrounds", "summary freq", "timestamps", "nsamples", "window",
     "round freq", "stddev"}

Crashes == {"TypeError", "IndexError", "StatisticsError"}

\* What a check leaves behind: how it ended and the object it worked on.
Checked(outcome, obj) == [outcome |-> outcome, obj |-> obj]

\* The attributes check() sets on the object: n, m and s, none of them a
\* column.
Labelled(row, mac) == row @@ [n |-> mac, m |-> mac, s |-> row.session]

\* The session's commit: the columns of the row as the object has them.
Flush(row, obj) == [c \in DOMAIN row |-> obj[c]]

\* DbgSummary.assert_freq_from_rounds.  The magnitudes are computed first:
\* math.log10 of a null frequency raises TypeError.
assert_freq_from_rounds(summary, rounds) ==
    LET freqs == [i \in DOMAIN rounds |-> rounds[i].freq]
    IN  IF \E i \in DOMAIN freqs : freqs[i] = Null \/ summary.freq = Null
        THEN "TypeError"
        ELSE IF CloseTo(Apply(QaCentral(summary.freq_method),
                              [i \in DOMAIN freqs |-> freqs[i][1]]),
                        summary.freq[1], FreqTol)
        THEN "ok"
        ELSE "summary freq"

\* DbgSummary.check that corrects nrounds instead of asserting it.
DbgSummaryCheckCorrecting(summary) ==
    LET rounds == RoundSeq(SummaryRounds(summary))
    IN  Checked("ok", [Labelled(summary, summary.mac)
                          EXCEPT !.nrounds = Val(Len(rounds))])

\* DbgSummary.check: assert_nrounds, and with nrounds set
\* assert_freq_from_rounds.
DbgSummaryCheck(summary) ==
    LET rounds == RoundSeq(SummaryRounds(summary))
        obj == Labelled(summary, summary.mac)
    IN  IF summary.nrounds # Null /\ summary.nrounds[1] # Len(rounds)
        THEN Checked("nrounds", obj)
        ELSE IF summary.nrounds = Null
        THEN Checked("ok", obj)
        ELSE Checked(assert_freq_from_rounds(summary, rounds), obj)

\* DbgRound.assert_samples, on the round's Samples in time order.
assert_samples(round, samples) ==
    LET ts == Ascending({x.tstamp : x \in samples})
    IN  IF round.nsamples # Len(ts) THEN "nsamples"
        ELSE IF ts = <<>> THEN "IndexError"
        ELSE IF \/ round.begin_tstamp # Val(ts[1])
                \/ round.end_tstamp # Val(ts[Len(ts)])
        THEN "window"
        ELSE "ok"

\* DbgRound.assert_freq_from_samples.
assert_freq_from_samples(round, freqs) ==
    LET freq == Apply(QaCentral(round.central), freqs)
    IN  IF ~CloseTo(freq, round.freq[1], FreqTol) THEN "round freq"
        ELSE IF Len(freqs) < 2 THEN "StatisticsError"
        ELSE IF ~StdevCloseTo(freqs, freq, round.stddev, StddevTol)
        THEN "stddev"
        ELSE "ok"

\* DbgRound.check.  assert_round_magnitude takes math.log10 of the stored
\* frequency; the stored magnitude itself is taken to agree.
DbgRoundCheck(round) ==
    LET obj == Labelled(round, round.session)
        total_samples == SummarySamples(round.session, round.role)
        samples == RoundSamples(round)
    IN  IF round.freq = Null
        THEN Checked("TypeError", obj)
        ELSE IF round.nsamples > 0 /\ total_samples = {}
        THEN Checked(IF round.begin_tstamp = Null /\ round.end_tstamp = Null
                     THEN "ok" ELSE "timestamps", obj)
        ELSE IF assert_samples(round, samples) # "ok"
        THEN Checked(assert_samples(round, samples), obj)
        ELSE Checked(assert_freq_from_samples(round, Freqs(samples)), obj)

\* The verifier's commands and session filters.
Commands == {"summary", "rounds", "samples", "all"}

Filters == {Null} \cup {Val(s) : s \in 1..(MaxDbSessions + 1)}

\* get_all_sessions, or the session asked for.
CheckedSessions(filter) ==
    IF filter = Null THEN {s.session : s \in summary_t} ELSE {filter[1]}

\* qa.py qa and check_all_single: the stages a command runs, in order.
StagesOf(command) ==
    IF command = "all" THEN <<"summary", "rounds", "samples">>
    ELSE <<command>>

\* A run that goes on to the next stage whatever the earlier ones raised.
ReachesRegardless(command, stage, failed) ==
    stage \in Range(StagesOf(command))

\* The run gets to a stage when the command has it and no check of an
\* earlier stage raised: nothing in qa.py catches an exception.
Reaches(command, stage, failed) ==
    stage \in Range(StagesOf(command)) /\ failed = {}

\* The rows a stage gets to check: `for row in result` up to the first
\* check that raises.  The query orders the rows by role only, so which
\* rows come before the first failing one is open; all of them pass.
Visits(run, rows, failing) ==
    IF ~run THEN {{}}
    ELSE IF failing = {} THEN {rows}
    ELSE {{f} \cup passed : f \in failing, passed \in SUBSET (rows \ failing)}

\* qa.py qa: check_summary, check_rounds and check_samples as the command
\* asks, each session in a transaction of its own.  The first check that
\* fails ends the run with its exception, its transaction rolled back.  A
\* transaction that ends writes back the columns of its objects.
\* DbgSample.check asserts nothing.
qa ==
    \E command \in Commands, filter \in Filters :
        LET checked == CheckedSessions(filter)
            summaries == {s \in summary_t : s.session \in checked}
            rounds == {r \in rounds_t : r.session \in checked}
            srun == Reaches(command, "summary", {})
            sfail == IF srun
                     THEN {s \in summaries : DbgSummaryCheck(s).outcome # "ok"}
                     ELSE {}
            rrun == Reaches(command, "rounds", sfail)
            rfail == IF rrun
                     THEN {r \in rounds : DbgRoundCheck(r).outcome # "ok"}
                     ELSE {}
            xrun == Reaches(command, "samples", sfail \cup rfail)
        IN  /\ \E sv \in Visits(srun, summaries, sfail),
                  rv \in Visits(rrun, rounds, rfail) :
                  report' =
                     [tool |-> "qa", arg |-> command, filter |-> filter,
                      outcome |->
                         IF sv \cap sfail # {}
                         THEN DbgSummaryCheck(
                                 CHOOSE s \in sv \cap sfail : TRUE).outcome
                         ELSE IF rv \cap rfail # {}
                         THEN DbgRoundCheck(
                                 CHOOSE r \in rv \cap rfail : TRUE).outcome
                         ELSE "ok",
                      summaries |-> sv, rounds |-> rv, samples |-> xrun]
            /\ summary_t' =
                  IF srun /\ sfail = {}
                  THEN (summary_t \ summaries) \cup
                       {Flush(s, DbgSummaryCheck(s).obj) : s \in summaries}
                  ELSE summary_t
            /\ rounds_t' =
                  IF rrun /\ rfail = {}
                  THEN (rounds_t \ rounds) \cup
                       {Flush(r, DbgRoundCheck(r).obj) : r \in rounds}
                  ELSE rounds_t
            /\ UNCHANGED <<dbphot, samples_t>>

QaNext == load_photometer \/ load_summary \/ load_rounds \/ load_samples \/ qa

\* -------------------------------------------------------------- the repair

\* What compare_and_fix_stddev decides for a round.
Decision(outcome, write, new_stddev) ==
    [outcome |-> outcome, write |-> write, new_stddev |-> new_stddev]

\* A repair that moves the stored deviation halfway to the recomputed one
\* whenever the two disagree.
compare_and_fix_stddev_halfway(dry_run, freqs, freq_method, stddev) ==
    IF Len(freqs) < 2
    THEN Decision("StatisticsError", FALSE, stddev)
    ELSE LET computed_freq == Apply(FixCentral(freq_method), freqs)
         IN  IF StdevCloseTo(freqs, computed_freq, stddev, StddevTol)
             THEN Decision("ok", FALSE, stddev)
             ELSE Decision("fixed", ~dry_run,
                           (stddev + Stdev(freqs, computed_freq)) \div 2)

\* A repair that overwrites whenever its recomputation disagrees.
compare_and_fix_stddev_unchecked(dry_run, freqs, freq_method, stddev) ==
    IF Len(freqs) < 2
    THEN Decision("StatisticsError", FALSE, stddev)
    ELSE LET computed_freq == Apply(FixCentral(freq_method), freqs)
         IN  IF StdevCloseTo(freqs, computed_freq, stddev, StddevTol)
             THEN Decision("ok", FALSE, stddev)
             ELSE Decision("fixed", ~dry_run, Stdev(freqs, computed_freq))

\* fix.py compare_and_fix_stddev: the deviation about the round's central
\* frequency is compared with the stored one; when they differ the
\* deviation about the arithmetic mean is compared too, and the stored value
\* is overwritten with the first when it agrees with the second.
\* statistics raises StatisticsError on fewer than two frequencies.
compare_and_fix_stddev(dry_run, freqs, freq_method, stddev) ==
    IF Len(freqs) < 2
    THEN Decision("StatisticsError", FALSE, stddev)
    ELSE LET computed_freq == Apply(FixCentral(freq_method), freqs)
             freq2 == Mean(freqs)
         IN  IF StdevCloseTo(freqs, computed_freq, stddev, StddevTol)
             THEN Decision("ok", FALSE, stddev)
             ELSE IF ~StdevCloseTo(freqs, freq2, stddev, StddevTol)
             THEN Decision("error", FALSE, stddev)
             ELSE Decision("fixed", ~dry_run, Stdev(freqs, computed_freq))

\* fix.py rounds: the rounds of a session that have a window.
WindowedRounds(sessions) ==
    {r \in rounds_t :
        /\ r.session \in sessions
        /\ r.begin_tstamp # Null
        /\ r.end_tstamp # Null}

\* fix.py fix_rounds_stddev on one round, and fix_stddev: the UPDATE sets
\* the stddev of the row with the round's session, role and number.
FixedRound(dry_run, round) ==
    LET d == compare_and_fix_stddev(dry_run, Freqs(RoundSamples(round)),
                                    round.central, round.stddev)
    IN  IF d.write THEN [round EXCEPT !.stddev = d.new_stddev] ELSE round

Crashing(dry_run, round) ==
    compare_and_fix_stddev(dry_run, Freqs(RoundSamples(round)),
                           round.central, round.stddev).outcome
       = "StatisticsError"

\* The rounds in the order a run meets them: the SELECT of fix.py rounds has
\* no ORDER BY.
Orders(rounds) ==
    {o \in [1..Cardinality(rounds) -> rounds] :
        \A i, j \in DOMAIN o : o[i] = o[j] => i = j}

\* The rounds a run gets to repair: those met before the first one on which
\* statistics raises.
MetBefore(order, crashing) ==
    {order[i] : i \in {k \in DOMAIN order :
                          \A j \in 1..k : order[j] \notin crashing}}

\* The columns that identify a round: an UPDATE of stddev leaves them.
RoundKey(round) ==
    [session |-> round.session, role |-> round.role, seq |-> round.seq]

\* fix.py fix with --stddev: every windowed round of the sessions asked for,
\* one after the other, each UPDATE committed on its own.  An exception ends
\* the run with the rounds met before it already repaired.  The report keeps
\* the order the rounds were met in and whether the run repeats the one
\* before it.
fix ==
    \E dry_run \in BOOLEAN, filter \in Filters :
        LET scope == WindowedRounds(CheckedSessions(filter))
            crashing == {r \in scope : Crashing(dry_run, r)}
            arg == IF dry_run THEN "dry-run" ELSE "write"
        IN  \E order \in Orders(scope) :
                LET done == MetBefore(order, crashing)
                    met == [i \in DOMAIN order |-> RoundKey(order[i])]
                IN  /\ rounds_t' = (rounds_t \ done) \cup
                                   {FixedRound(dry_run, r) : r \in done}
                    /\ report' = [tool |-> "fix", arg |-> arg,
                                  filter |-> filter,
                                  outcome |-> IF crashing = {} THEN "ok"
                                              ELSE "StatisticsError",
                                  order |-> met,
                                  again |-> /\ report.tool = "fix"
                                            /\ report.arg = arg
                                            /\ report.filter = filter
                                            /\ report.order = met]
                    /\ UNCHANGED <<dbphot, summary_t, samples_t>>

FixNext == load_photometer \/ load_summary \/ load_rounds \/ load_samples \/ fix

\* ============================================ the statistics of one round

\* Sequences of `len` elements of S.
Tuples(S, len) == [1..len -> S]

\* The frequencies a round may hold, in units of 0.0005 Hz.
StatFreqs == {2000, 2040, 2120}

\* Nothing has been computed yet.
NoStat == [tool |-> "none"]

\* The rounds the tools are compared on: statistics.stdev takes two
\* samples at least.
StatRounds == UNION {Tuples(StatFreqs, n) : n \in 2..MaxStatLen}

\* A round of `rounds` stored with one of `methods`.
StatInit(rounds, methods) ==
    /\ stat_freqs \in rounds
    /\ stat_method \in methods
    /\ stat_out = NoStat

\* RingBuffer.statistics: the low median, the mean and the deviation about
\* the mean, whatever the method.
RingStatistics(xs) ==
    [median |-> MedianLow(xs), aver |-> Mean(xs), stdev |-> Stdev(xs, Mean(xs))]

\* The central value and the deviation about it that a tool computes with
\* its central(method).
Recomputed(f, xs) ==
    [central |-> Apply(f, xs), stdev |-> Stdev(xs, Apply(f, xs))]

\* The aggregator closes the round: RingBuffer.statistics.
ring_statistics ==
    /\ stat_out' = [tool |-> "ring"] @@ RingStatistics(stat_freqs)
    /\ UNCHANGED <<stat_freqs, stat_method>>

\* The verifier recomputes the round: DbgRound.assert_freq_from_samples.
qa_recompute ==
    /\ stat_out' = [tool |-> "qa", estimator |-> QaCentral(stat_method)]
                      @@ Recomputed(QaCentral(stat_method), stat_freqs)
    /\ UNCHANGED <<stat_freqs, stat_method>>

\* The repair recomputes the round: compare_and_fix_stddev.
fix_recompute ==
    /\ stat_out' = [tool |-> "fix", estimator |-> FixCentral(stat_method)]
                      @@ Recomputed(FixCentral(stat_method), stat_freqs)
    /\ UNCHANGED <<stat_freqs, stat_method>>

StatNext == ring_statistics \/ qa_recompute \/ fix_recompute

\* =========================================================== specifications

Init ==
    /\ TuiInit
    /\ DecInit({"ref"})
    /\ StrInit
    /\ RingInit
    /\ ZeroPointInit({"udp"})
    /\ CalInit
    /\ DbInit
    /\ StatInit({<<2000, 2120>>}, {"median"})

\* The queue pipeline, backlog runs.
NextBacklog ==
    /\ BacklogNext
    /\ UNCHANGED <<decVars, strVars, ringVars, zpVars, calVars, dbVars,
                   statVars>>

SpecBacklog == Init /\ [][NextBacklog]_vars

\* The metadata fetches.
NextInfo ==
    /\ InfoNext
    /\ UNCHANGED <<decVars, strVars, ringVars, zpVars, calVars, dbVars,
                   statVars>>

SpecInfo == Init /\ [][NextInfo]_vars

\* The queue pipeline.
Next ==
    /\ TuiNext
    /\ UNCHANGED <<decVars, strVars, ringVars, zpVars, calVars, dbVars,
                   statVars>>

Spec == Init /\ [][Next]_vars

\* The decode stage of one photometer.
NextDecode ==
    /\ DecNext
    /\ UNCHANGED <<tuiVars, strVars, ringVars, zpVars, calVars, dbVars,
                   statVars>>

InitDecode ==
    /\ TuiInit
    /\ DecInit(Roles)
    /\ StrInit
    /\ RingInit
    /\ ZeroPointInit({"udp"})
    /\ CalInit
    /\ DbInit
    /\ StatInit({<<2000, 2120>>}, {"median"})

SpecDecode == InitDecode /\ [][NextDecode]_vars

\* The stream pipeline.
NextStream ==
    /\ StrNext
    /\ UNCHANGED <<tuiVars, decVars, ringVars, zpVars, calVars, dbVars,
                   statVars>>

SpecStream == Init /\ [][NextStream]_vars

\* One ring buffer under any sequence of appends and pops.
NextRing ==
    /\ RingNext
    /\ UNCHANGED <<tuiVars, decVars, strVars, zpVars, calVars, dbVars,
                   statVars>>

SpecRing == Init /\ [][NextRing]_vars

\* The zero-point writes of both roles, under every endpoint configuration.
NextZeroPoint ==
    /\ ZeroPointNext
    /\ UNCHANGED <<tuiVars, decVars, strVars, ringVars, calVars, dbVars,
                   statVars>>

InitZeroPoint ==
    /\ TuiInit
    /\ DecInit({"ref"})
    /\ StrInit
    /\ RingInit
    /\ ZeroPointInit(Transports)
    /\ CalInit
    /\ DbInit
    /\ StatInit({<<2000, 2120>>}, {"median"})

SpecZeroPoint == InitZeroPoint /\ [][NextZeroPoint]_vars

\* The calibration sessions of one run.
NextCal ==
    /\ CalNext
    /\ UNCHANGED <<tuiVars, decVars, strVars, ringVars, zpVars, dbVars,
                   statVars>>

SpecCal == Init /\ [][NextCal]_vars

\* The loader and the verifier on the stored tables.
NextQa ==
    /\ QaNext
    /\ UNCHANGED <<tuiTaskVars, decVars, strVars, ringVars, zpVars, calVars,
                   statVars>>

SpecQa == Init /\ [][NextQa]_vars

\* The loader and the repair on the stored tables.
NextFix ==
    /\ FixNext
    /\ UNCHANGED <<tuiTaskVars, decVars, strVars, ringVars, zpVars, calVars,
                   statVars>>

SpecFix == Init /\ [][NextFix]_vars

\* One round of every length and method, and the three tools applied to it.
NextStat ==
    /\ StatNext
    /\ UNCHANGED <<tuiVars, decVars, strVars, ringVars, zpVars, calVars,
                   dbVars>>

InitStat ==
    /\ TuiInit
    /\ DecInit({"ref"})
    /\ StrInit
    /\ RingInit
    /\ ZeroPointInit({"udp"})
    /\ CalInit
    /\ DbInit
    /\ StatInit(StatRounds, Methods)

SpecStat == InitStat /\ [][NextStat]_vars

\* ============================================================== properties

\* The reading carries a sequence indicator (the 'udp' key of a JSON frame).
HasSeq(message) == HasKey(message, "udp")

\* Two readings carry the same sequence indicator.
SameSeq(m1, m2) == HasSeq(m1) /\ HasSeq(m2) /\ m1.udp = m2.udp

\* C1: in the decode stage, of any two consecutive accepted frames that carry
\* the same sequence indicator exactly one reading is handed to the queue,
\* the first of the two, and the reading of an accepted frame that carries
\* no sequence indicator is always handed to the queue.
C1_DedupEmitsFirst ==
    /\ \A i \in 1..(Len(dacc) - 1) :
          SameSeq(dacc[i], dacc[i + 1]) =>
              /\ dacc[i] \in Range(dqueue)
              /\ dacc[i + 1] \notin Range(dqueue)
    /\ \A i \in 1..Len(dacc) :
          ~HasSeq(dacc[i]) => dacc[i] \in Range(dqueue)

\* C2: when a role's stream is full, the turn of the read loop that accepts a
\* frame leaves the producer running and the buffer as it was: the reading
\* is dropped and no sender waits.
C2_FullChannelDrops ==
    [][\A r \in Roles :
          (StreamFull(r) /\ sn'[r] # sn[r] /\ sgroup' = sgroup) =>
              /\ sprod'[r] = "running"
              /\ sbuf'[r] = sbuf[r]
              /\ spend'[r] = None]_vars

\* C3: a failure of one role's producer task cancels no task of the other
\* role and does not leave run_async as an exception.
C3_FailureStaysInRole ==
    \A r \in Roles :
        sprod[r] = "failed" =>
            /\ sprod[other(r)] # "cancelled"
            /\ srecv[other(r)] # "cancelled"
            /\ sgroup # "escaped"

\* C5: the readings buffered between a role's decode stage and its consumer
\* never exceed the channel capacity.
C5_QueueBounded ==
    \A r \in Roles : Len(queue[r]) <= max_buffer_size

\* The frame matches a format the role's decoder knows.
KnownFormat(role, data) ==
    IF old_payload(role) THEN data.kind \in {"hz", "mhz"}
    ELSE data.kind = "json"

\* C6: a turn of the read loop on a frame that matches no known format
\* leaves the task running, the queue and the decoder's previous reading
\* unchanged.
C6_UnmatchedRejected ==
    [][(dn' # dn /\ ~KnownFormat(drole, dlast')) =>
          /\ dtask' = "running"
          /\ dqueue' = dqueue
          /\ dprev' = dprev]_vars

\* C8: a role whose metadata fetch failed never has its producer waiting
\* for room in a stream that no task reads any more.
C8_FetchFailureNoStall ==
    \A r \in Roles : ~(srecv[r] = "returned" /\ sprod[r] = "blocked")

\* The readings `role` accepted after the other role's pipeline was stopped.
AcceptedSince(role) ==
    {accepted[role][i] : i \in (stopped_at[other(role)] + 1)..Len(accepted[role])}

\* C4: cancel_readings of one role leaves the tasks of the other role as
\* they were, and once the other role's queue is empty every reading it
\* accepted after that stop has been taken by its consumer.
C4_StopLeavesOtherDelivering ==
    [][\A r \in Roles :
          /\ SwitchOff(other(r)) =>
                /\ producer'[r] = producer[r]
                /\ consumer'[r] = consumer[r]
          /\ (stopped_at'[other(r)] >= 0 /\ queue'[r] = <<>>) =>
                AcceptedSince(r)' \subseteq Range(got'[r])]_vars

\* C7: a metadata fetch that fails, by timeout or otherwise, leaves the
\* role's switch off, stores no Photometer, leaves the role's current MAC
\* as it was and leaves the other role's switch and tasks as they were.
C7_FetchFailureMarksOffline ==
    [][\A r \in Roles :
          (GetInfoTimeout(r) \/ GetInfoError(r)) =>
              /\ ~switch'[r]
              /\ dbphot' = dbphot
              /\ cur_mac'[r] = cur_mac[r]
              /\ switch'[other(r)] = switch[other(r)]
              /\ producer'[other(r)] = producer[other(r)]
              /\ consumer'[other(r)] = consumer[other(r)]]_vars

\* s is an initial segment of t.
IsPrefix(s, t) == Len(s) <= Len(t) /\ \A i \in 1..Len(s) : s[i] = t[i]

\* C9: every frame a role's transport received was handed to the decoder
\* once with its arrival stamp, and what the consumer has taken are the
\* accepted readings in arrival order, none skipped, repeated or reordered.
C9_InOrderDelivery ==
    \A r \in Roles :
        /\ Len(accepted[r]) <= nrecv[r]
        /\ \A i \in 1..Len(accepted[r]) :
              \A j \in 1..Len(accepted[r]) :
                  i < j => accepted[r][i].tstamp < accepted[r][j].tstamp
        /\ IsPrefix(got[r], accepted[r])

\* C10: the step that stops a role's pipeline leaves its transport handle
\* closed, and the step that starts it again leaves no reading buffered
\* before the stop in the queue.
C10_StopReleasesHandle ==
    [][\A r \in Roles :
          /\ SwitchOff(r) => ~port'[r]
          /\ SwitchOn(r) => queue'[r] = <<>>]_vars

LastN(s, n) == SubSeq(s, IF Len(s) > n THEN Len(s) - n + 1 ELSE 1, Len(s))

\* C19: after any sequence of appends and pops the ring buffer never holds
\* more than its capacity, what it holds is the most recent items appended,
\* in arrival order, and an append on a full buffer drops the oldest item
\* and adds the new one at the end, leaving exactly the last `capacity`
\* items appended.
C19_RingHoldsMostRecent ==
    [][/\ Len(rbuffer') <= RingSize
       /\ rbuffer' = LastN(rhist', Len(rbuffer'))
       /\ (Len(rbuffer) = RingSize /\ rhist' # rhist) =>
             /\ rbuffer' = Append(Tail(rbuffer), rhist'[Len(rhist')])
             /\ rbuffer' = LastN(rhist', RingSize)]_vars

\* A full buffer that has lost items both to eviction and to a pop and has
\* been filled again.
C19_Witness ==
    /\ Len(rhist) > RingSize + 1
    /\ Len(rbuffer) = RingSize
    /\ rpopped # <<>>
    /\ rbuffer[1] # rbuffer[2]

\* C18: whatever metadata fetches have run and however they overlapped, no
\* two stored Photometer rows have the same MAC.
C18_OnePhotometerPerMac ==
    \A i, j \in 1..Len(dbphot) : dbphot[i].mac = dbphot[j].mac => i = j

\* A fetch that resumes after its select found the MAC stored leaves every
\* stored row as it was.
StoredMacUntouched ==
    [][\A role \in Roles :
          (fetch[role] # Idle /\ fetch[role].rows > 0 /\ fetch'[role] = Idle)
             => dbphot' = dbphot]_vars

\* C16: no zero-point write of the reference role ever takes effect: nothing
\* is written to the reference device, and no write issued for the reference
\* role stores a zero point anywhere.
C16_NoReferenceZeroPoint ==
    /\ flash["ref"] = {}
    /\ ~zpsaved["ref"]
    /\ config_zp["ref-device"] = {}

\* C11: the calibration state of a (session, role) only moves forward: it
\* starts at Collecting(0), collecting goes up one round at a time, it
\* becomes Finalized only from Collecting with the configured number of
\* rounds closed, a finalized state never changes again, and starting a
\* session never touches the state of an earlier one.
C11_CollectingThenFinalized ==
    [][\A s \in Sessions, r \in Roles :
          /\ cal[s][r] = NotStarted =>
                cal'[s][r] \in {NotStarted, Collecting(0)}
          /\ cal[s][r].state = "Collecting" =>
                \/ cal'[s][r] = cal[s][r]
                \/ cal'[s][r] = Collecting(cal[s][r].rounds + 1)
                \/ /\ cal'[s][r] = Finalized
                   /\ cal[s][r].rounds = ConfiguredRounds
          /\ cal[s][r] = Finalized => cal'[s][r] = Finalized
          /\ session' # session =>
                /\ cal[session'] = [q \in Roles |-> NotStarted]
                /\ cal'[session'] = [q \in Roles |-> Collecting(0)]]_vars

\* A second session is collecting afresh while the first one stays
\* finalized.
C11_Witness ==
    /\ session = 2
    /\ cal[1]["test"] = Finalized
    /\ cal[2]["test"] = Collecting(1)

\* C12: a verifier run, whatever its command and session filter and however
\* it ends, leaves every stored Photometer, Summary, Round and Sample as it
\* was.
C12_VerifierReadsOnly ==
    [][(report' # report /\ report'.tool = "qa") =>
          /\ dbphot' = dbphot
          /\ summary_t' = summary_t
          /\ rounds_t' = rounds_t
          /\ samples_t' = samples_t]_vars

\* The verifier has run over a Summary whose nrounds exceeds the number of
\* its rounds and has reported the violation.
C12_Witness ==
    /\ report.tool = "qa"
    /\ report.outcome = "nrounds"
    /\ \E s \in summary_t : s.nrounds = Val(MaxDbRounds + 1)

\* The central tendency the aggregation formulas define: the arithmetic
\* mean, the low median, the mode.
FormulaCentral(method, xs) ==
    IF method = "mean" THEN Mean(xs)
    ELSE IF method = "median" THEN MedianLow(xs)
    ELSE Mode(xs)

\* value is exactly the stored number.
Equals(value, stored) == value.num = value.den * stored

\* A stored Round agrees with its Samples: a round without samples holds no
\* central value and no window; any other holds its samples' count, their
\* first and last time stamp, their central frequency by the round's method
\* and their standard deviation about it.
ConsistentRound(round) ==
    LET samples == RoundSamples(round)
        freqs == Freqs(samples)
    IN  IF round.nsamples = 0
        THEN /\ samples = {}
             /\ round.freq = Null
             /\ round.begin_tstamp = Null
             /\ round.end_tstamp = Null
        ELSE /\ Len(freqs) = round.nsamples
             /\ Len(freqs) >= 2
             /\ round.begin_tstamp = Val(1)
             /\ round.end_tstamp = Val(Len(freqs))
             /\ round.freq # Null
             /\ Equals(FormulaCentral(round.central, freqs), round.freq[1])
             /\ round.stddev =
                   Stdev(freqs, FormulaCentral(round.central, freqs))

\* A stored Summary agrees with its Rounds: nrounds, when set, is their
\* number, and the frequency is their central frequency by the summary's
\* method.
ConsistentSummary(summary) ==
    LET rounds == RoundSeq(SummaryRounds(summary))
    IN  summary.nrounds # Null =>
           /\ summary.nrounds[1] = Len(rounds)
           /\ \A i \in DOMAIN rounds : rounds[i].freq # Null
           /\ summary.freq # Null
           /\ Equals(FormulaCentral(
                         summary.freq_method,
                         [i \in DOMAIN rounds |-> rounds[i].freq[1]]),
                     summary.freq[1])

Consistent ==
    /\ \A s \in summary_t : ConsistentSummary(s)
    /\ \A r \in rounds_t : ConsistentRound(r)

\* C13: a verifier run on tables whose aggregates all equal what the
\* formulas give for their stored method reports no violation.
C13_ConsistentDataPasses ==
    (report.tool = "qa" /\ Consistent) => report.outcome \notin Violations

\* The deviation of the round's samples about their central frequency, as
\* the repair computes it for the round's method, is not the stored one.
Disagrees(round) ==
    LET freqs == Freqs(RoundSamples(round))
    IN  /\ Len(freqs) >= 2
        /\ ~StdevCloseTo(freqs, Apply(FixCentral(round.central), freqs),
                         round.stddev, StddevTol)

\* The deviation of the round's samples about their arithmetic mean is the
\* stored one.
MeanBased(round) ==
    LET freqs == Freqs(RoundSamples(round))
    IN  /\ Len(freqs) >= 2
        /\ StdevCloseTo(freqs, Mean(freqs), round.stddev, StddevTol)

\* The round is stored after the step with another stddev and nothing else
\* changed.
Overwritten(round) ==
    /\ round \notin rounds_t'
    /\ \E r2 \in rounds_t' : r2 = [round EXCEPT !.stddev = r2.stddev]

\* A repair step changes nothing but the stddev of rounds.
OnlyStddev ==
    /\ dbphot' = dbphot
    /\ summary_t' = summary_t
    /\ samples_t' = samples_t
    /\ Cardinality(rounds_t') = Cardinality(rounds_t)
    /\ \A r \in rounds_t : r \in rounds_t' \/ Overwritten(r)

\* C14 as stated: a repair run overwrites a round's stddev only when the
\* recomputation from the round's samples disagrees with it, the independent
\* recomputation about the mean disagrees with it as well, and dry-run is
\* not set; a dry run changes nothing; nothing but stddev is ever changed.
C14_RepairOnlyWhenConfirmed ==
    [][(report' # report /\ report'.tool = "fix") =>
          /\ OnlyStddev
          /\ report'.arg = "dry-run" => rounds_t' = rounds_t
          /\ \A r \in rounds_t :
                Overwritten(r) =>
                   /\ report'.arg = "write"
                   /\ Disagrees(r)
                   /\ ~MeanBased(r)]_vars

\* C14, amended: a repair run overwrites a round's stddev only when the
\* recomputation about the round's central frequency disagrees with it, the
\* recomputation about the arithmetic mean reproduces it, and dry-run is not
\* set; a dry run changes nothing; nothing but stddev is ever changed.
C14_RepairOnlyMeanBased ==
    [][(report' # report /\ report'.tool = "fix") =>
          /\ OnlyStddev
          /\ report'.arg = "dry-run" => rounds_t' = rounds_t
          /\ \A r \in rounds_t :
                Overwritten(r) =>
                   /\ report'.arg = "write"
                   /\ Disagrees(r)
                   /\ MeanBased(r)]_vars

\* A repair run has replaced a mean-based deviation by the one about the
\* median.
C14_Witness ==
    /\ report.tool = "fix"
    /\ report.arg = "write"
    /\ \E r \in rounds_t :
          /\ r.central = "median"
          /\ Len(Freqs(RoundSamples(r))) = MaxSamples
          /\ Mean(Freqs(RoundSamples(r))) # Median(Freqs(RoundSamples(r)))
          /\ r.stddev \notin RoundStddevs

\* The Summaries a verifier run with this filter checks whose nrounds is set
\* and is not the number of their Rounds.
WrongNrounds(filter) ==
    {s \in summary_t :
        /\ s.session \in CheckedSessions(filter)
        /\ s.nrounds # Null
        /\ s.nrounds[1] # Cardinality(SummaryRounds(s))}

\* A summary check of the verifier reports the nrounds violation exactly
\* when a Summary it checks has nrounds set and not that many Rounds.
NroundsReportedWhenWrong ==
    (report.tool = "qa" /\ report.arg = "summary") =>
       (report.outcome = "nrounds" <=> WrongNrounds(report.filter) # {})

\* C15: every stored Summary with nrounds set has that many Rounds, and a
\* summary check of the verifier reports the nrounds violation exactly when
\* a Summary it checks has not.
C15_NroundsIsRoundCount ==
    /\ \A s \in summary_t :
          s.nrounds # Null => s.nrounds[1] = Cardinality(SummaryRounds(s))
    /\ NroundsReportedWhenWrong

\* C17: every stored Round with nsamples = 0 has a null central frequency
\* and null begin and end time stamps.
C17_ZeroSampleRoundIsEmpty ==
    \A r \in rounds_t :
        r.nsamples = 0 =>
           /\ r.freq = Null
           /\ r.begin_tstamp = Null
           /\ r.end_tstamp = Null

C23_QueueHoldsReadings ==
    \A role \in Roles :
        /\ Range(queue[role]) \subseteq Range(accepted[role])
        /\ Range(got[role]) \subseteq Range(accepted[role])

\* A task the controller created that has neither ended nor been cancelled.
LiveProducerTask(role) == producer[role] \in {"pending", "running"}

LiveConsumerTask(role) == consumer[role] = "running"

\* The step is a start_readings of the role: new tasks replace its handles.
StartsReadings(role) ==
    \/ ~switch[role] /\ switch'[role]
    \/ producer[role] # "pending" /\ producer'[role] = "pending"

ProducerEnded(state) == state \in {"done", "failed", "cancelled"}

\* Once a role's transport task has ended the role's send stream is closed.
SendClosedWhenProducerEnds ==
    \A role \in Roles : ProducerEnded(sprod[role]) => ~ssendopen[role]

\* C26: once a role's transport task has ended, normally or by an error, the
\* role's send stream is closed, and a receptor of the role that is in its
\* receive loop leaves the loop only with the buffer empty: it receives what
\* is still buffered and then ends.
C26_ConsumerDrainsThenEnds ==
    [][\A role \in Roles :
          /\ ProducerEnded(sprod[role]) => ~ssendopen[role]
          /\ ( /\ ProducerEnded(sprod'[role])
               /\ srecv[role] = "receiving"
               /\ srecv'[role] # "receiving" ) => sbuf[role] = <<>>]_vars

\* Two floats are the same number.
SameNumber(a, b) == a.num * b.den = b.num * a.den

\* The median a tool computed for the round, when it computed one.
ComputedMedian ==
    IF stat_out.tool = "ring" THEN stat_out.median ELSE stat_out.central

\* C21: for a round stored with method median, the central value each tool
\* computes (the aggregator, the verifier, the repair) is the low median of
\* the round's frequencies, one of the frequencies themselves.
C21_MedianIsLowMedian ==
    (stat_method = "median" /\ stat_out.tool # "none") =>
        /\ SameNumber(ComputedMedian, MedianLow(stat_freqs))
        /\ \E i \in DOMAIN stat_freqs :
              SameNumber(ComputedMedian, Rat(stat_freqs[i], 1))

\* The aggregator taken alone does compute the low median.
RingMedianIsLowMedian ==
    stat_out.tool = "ring" =>
        /\ SameNumber(stat_out.median, MedianLow(stat_freqs))
        /\ \E i \in DOMAIN stat_freqs :
              SameNumber(stat_out.median, Rat(stat_freqs[i], 1))

\* C22: the standard deviation a tool computes for a round is the deviation
\* about the central frequency the tool computed for the round's method; for
\* a round stored with method median, the deviation about the median.
C22_StddevAboutCentral ==
    /\ (stat_out.tool = "ring" /\ stat_method = "median") =>
          stat_out.stdev = Stdev(stat_freqs, stat_out.median)
    /\ (stat_out.tool = "ring" /\ stat_method = "mean") =>
          stat_out.stdev = Stdev(stat_freqs, stat_out.aver)
    /\ stat_out.tool \in {"qa", "fix"} =>
          stat_out.stdev = Stdev(stat_freqs, stat_out.central)

\* The verifier and the repair taken alone do take the deviation about the
\* central value they computed.
RecomputedStddevAboutCentral ==
    stat_out.tool \in {"qa", "fix"} =>
        stat_out.stdev = Stdev(stat_freqs, stat_out.central)

\* C28: for every stored method the verifier's central and the repair's
\* central select the estimator the method names.
C28_SameEstimator ==
    stat_out.tool \in {"qa", "fix"} => stat_out.estimator = stat_method

\* The repair's central taken alone does select the estimator named.
FixSelectsNamedEstimator ==
    stat_out.tool = "fix" => stat_out.estimator = stat_method

RaisedIn(run) ==
    {s \in run.summaries : DbgSummaryCheck(s).outcome # "ok"}
    \cup {r \in run.rounds : DbgRoundCheck(r).outcome # "ok"}

\* C29: a verifier run stops at the first check that raises: of the Summaries
\* and Rounds it checked at most one failed, the run ended in error exactly
\* when one did, and after a failed Summary no Round or Sample was checked,
\* after a failed Round no Sample.
C29_StopsAtFirstFailure ==
    report.tool = "qa" =>
        /\ Cardinality(RaisedIn(report)) <= 1
        /\ report.outcome # "ok" <=> RaisedIn(report) # {}
        /\ (\E s \in report.summaries : DbgSummaryCheck(s).outcome # "ok") =>
              report.rounds = {} /\ ~report.samples
        /\ (\E r \in report.rounds : DbgRoundCheck(r).outcome # "ok") =>
              ~report.samples

\* A run of every stage ended at a Summary whose nrounds is wrong, with a
\* Round stored that it never got to.
C29_Witness ==
    /\ report.tool = "qa"
    /\ report.arg = "all"
    /\ report.outcome = "nrounds"
    /\ report.rounds = {}
    /\ rounds_t # {}

\* A Round recorded without samples: nsamples = 0, no central frequency, no
\* window.
EmptyRound(round) ==
    /\ round.nsamples = 0
    /\ round.freq = Null
    /\ round.begin_tstamp = Null
    /\ round.end_tstamp = Null

\* C30: a round check of the verifier that met only Rounds recorded without
\* samples ends without an error and reports no violation.
C30_EmptyRoundPasses ==
    ( /\ report.tool = "qa"
      /\ report.arg = "rounds"
      /\ report.rounds # {}
      /\ \A r \in report.rounds : EmptyRound(r) ) => report.outcome = "ok"

====
